---- MODULE Spec2Model ----
(***************************************************************************)
(* Model of the download pipeline of astas888-manga:                       *)
(*   worker.main            - the queue consumer loop                      *)
(*   AsyncDownloadManager   - admission slots, outcome counters, adaptive  *)
(*                            per-source limit, per-chapter fan-out        *)
(*   server.trigger_download, server.cancel_download,                      *)
(*   server.get_source_status - the web server's writes to and reads of    *)
(*                            the same store                               *)
(* The shared store (redis) holds dl_stats:<s>:success, dl_stats:<s>:error,*)
(* dl_limit:<s>, dl_active:<s>, job:<id> and the list download_jobs.       *)
(* Every redis command is one atomic step; the local code between two      *)
(* awaits belongs to the step of the command that precedes it.  A body is  *)
(* streamed chunk by chunk through the buffer of the file object, and a    *)
(* file is the set of the chunks of its body that have reached the disk.   *)
(* An exception that leaves download_chapter                               *)
(* leaves main as well: the worker process ends once the reply of the      *)
(* release has been read, and its save coroutines run until then.          *)
(***************************************************************************)
EXTENDS Integers, Sequences, FiniteSets, TLC

VARIABLES
    succ,           \* dl_stats:<source>:success
    err,            \* dl_stats:<source>:error
    limit,          \* dl_limit:<source>
    active,         \* dl_active:<source>
    queue,          \* the redis list download_jobs
    files,          \* the files under output_dir, each the set of the chunks of
                    \* its body that are on disk
    default_limit,  \* self.default_limit
    compress_images, \* self.compress_images
    net,            \* what the origin and the disk can do in this run: fail with
                    \* "status", "stream" or "mkdir", send an "empty" body, a
                    \* "long" one, or a body that is no "image"
    jobrec,         \* job:<id>, the job descriptions trigger_download has stored
    req,            \* where each POST /api/v1/download is in trigger_download
    cancel,         \* where each POST /api/v1/cancel/<id> is in cancel_download,
                    \* and the job description it has read
    wpc,            \* where each worker process is in main / download_chapter
    job,            \* the job a worker has popped
    lim,            \* limit, the local of _acquire_slot
    done,           \* done, the nonlocal of download_chapter
    sem,            \* free permits of sem
    fetches,        \* GET requests the current job has sent
    failed,         \* failures the current job has logged
    tasks           \* the save(i, url) coroutines of the current job

vars == <<succ, err, limit, active, queue, files, default_limit, compress_images,
          net, jobrec, req, cancel, wpc, job, lim, done, sem, fetches, failed, tasks>>

store == <<succ, err, limit, active>>

\* what is fixed when the worker processes start
config == <<default_limit, compress_images, net>>

\* the state of the web server
server == <<jobrec, req, cancel>>

----------------------------------------------------------------------------
(* Bounds of the model *)

\* most asset URLs in one job
MaxAssets == 2
\* most jobs waiting in download_jobs at the start of a concurrent run
MaxJobs == 2
\* jobs queued in the ten-outcome scenario
ScenarioJobs == 10
\* chunks in which the body of a response arrives
MaxChunks == 2

(* Program constants *)

\* int(os.getenv("DL_GLOBAL_LIMIT", 3))
DefaultLimit == 3
\* download_chapter(..., sem_limit=8)
DefaultSemLimit == 8
\* if total < 10: return
MinSignal == 10
\* if succ + err > 200
DecayThreshold == 200
\* current < 10
MaxLimit == 10
\* current > 1
MinLimit == 1
\* get_source_status: int(await r.get(f"dl_limit:{src}") or 3)
ServerDefaultLimit == 3

Workers == {"w1", "w2"}

\* MangapillSource.name, and the fallback of getattr(..., "name", "global")
Sources == {"mangapill", "global"}

----------------------------------------------------------------------------
(* Pure helpers *)

Max(a, b) == IF a >= b THEN a ELSE b
Min(a, b) == IF a <= b THEN a ELSE b

\* find_source_for_url(source_url or ""), then getattr(.., "name", "global").lower()
\* A source url is modelled by its host.
SourceOf(source_url) ==
    IF source_url = "mangapill.com" THEN "mangapill" ELSE "global"

\* A redis key space is a function whose domain is the set of keys that exist.
\* int(await self.redis.get(key) or 0)
GetInt(m, k) == IF k \in DOMAIN m THEN m[k] ELSE 0

\* await self.redis.set(key, v)
Put(m, k, v) == [q \in DOMAIN m \cup {k} |-> IF q = k THEN v ELSE m[q]]

\* await self.redis.incr(key): a missing key counts as 0
Incr(m, k) == Put(m, k, GetInt(m, k) + 1)

\* a release that does not reach the store
Decr_Lost(m, k) == m

\* await self.redis.decr(key)
Decr(m, k) == Put(m, k, GetInt(m, k) - 1)

\* _get_limit: val = await self.redis.get(key); int(val) if val else self.default_limit
GetLimit(m, k, dflt) == IF k \in DOMAIN m THEN m[k] ELSE dflt

\* get_source_status: limit = int(await r.get(f"dl_limit:{src}") or 3)
StatusLimit(m, k) == IF k \in DOMAIN m THEN m[k] ELSE ServerDefaultLimit

\* get_source_status: one entry for every key dl_stats:<src>:success, with the
\* fields source, limit, success and error read from the store (error_rate,
\* which is computed from success and error, is left out)
SourceStatus(sm, em, lm) ==
    [s \in DOMAIN sm |->
        [source |-> s, limit |-> StatusLimit(lm, s),
         success |-> GetInt(sm, s), error |-> GetInt(em, s)]]

\* the back-off threshold mistaken for 0.4
RateAbove_Point4(e, total) == 10 * e > 4 * total

\* the back-off test written as rate >= 0.3
RateAbove_Inclusive(e, total) == 10 * e >= 3 * total

\* rate = err / total; rate > 0.3.  For the counters the program can hold the
\* float comparison agrees with the exact one, 10*err > 3*total.
RateAbove(e, total) == 10 * e > 3 * total

\* the ramp-up threshold mistaken for 0.005
RateBelow_Point005(e, total) == 200 * e < total

\* rate < 0.05, i.e. 20*err < total
RateBelow(e, total) == 20 * e < total

\* the signal floor mistaken for 5
HasSignal_Five(s, e) == s + e >= 5

\* if total < 10: return
HasSignal(s, e) == s + e >= MinSignal

\* the back-off branch without its floor, current > 1
AdjustDecision_NoFloor(s, e, current) ==
    IF RateAbove(e, s + e) THEN "backoff"
    ELSE IF RateBelow(e, s + e) /\ current < MaxLimit THEN "raise"
    ELSE "keep"

\* The branch _auto_adjust_limit takes once it has read succ, err and current
AdjustDecision(s, e, current) ==
    IF RateAbove(e, s + e) /\ current > MinLimit THEN "backoff"
    ELSE IF RateBelow(e, s + e) /\ current < MaxLimit THEN "raise"
    ELSE "keep"

\* a step of two instead of one
NewLimit_StepTwo(s, e, current) ==
    CASE AdjustDecision(s, e, current) = "backoff" -> current - 2
      [] AdjustDecision(s, e, current) = "raise"   -> current + 2
      [] OTHER -> current

\* new = current - 1  /  new = current + 1
NewLimit(s, e, current) ==
    CASE AdjustDecision(s, e, current) = "backoff" -> current - 1
      [] AdjustDecision(s, e, current) = "raise"   -> current + 1
      [] OTHER -> current

\* the decay test written as succ + err >= 200
DecayDue_AtLeast(s, e) == s + e >= DecayThreshold

\* if succ + err > 200
DecayDue(s, e) == s + e > DecayThreshold

\* halving that rounds up
Halve_Ceil(x) == (x + 1) \div 2

\* succ // 2, err // 2
Halve(x) == x \div 2

\* Decimal digits of a natural number, most significant first
RECURSIVE Digits(_)
Digits(i) == IF i < 10 THEN <<i>> ELSE Digits(i \div 10) \o <<i % 10>>

\* the index written without padding
Pad3_Bare(i) == Digits(i)

\* f"{i:03d}": at least three digits, padded with zeros on the left
Pad3(i) ==
    LET d == Digits(i)
    IN  IF Len(d) >= 3 THEN d
        ELSE [k \in 1..(3 - Len(d)) |-> 0] \o d

\* Path(url).suffix or ".jpg"; a url is a record with its stem and suffix
Ext(url) == IF url.suffix # "" THEN url.suffix ELSE ".jpg"

\* folder / f"{i:03d}{ext}" with folder = output_dir / manga_title / chapter_title
Dest(j, i) == <<j.manga_title, j.chapter_title, Pad3(i), Ext(j.urls[i])>>

\* dest.exists() and dest.stat().st_size > 0
ExistsNonEmpty(fs, p) == p \in DOMAIN fs /\ fs[p] # {}

\* the file system with file p holding the chunks st
WriteFile(fs, p, st) == [q \in DOMAIN fs \cup {p} |-> IF q = p THEN st ELSE fs[q]]

----------------------------------------------------------------------------
(* Jobs and tasks *)

UrlA == [stem |-> "http://h/1", suffix |-> ".jpg"]
UrlB == [stem |-> "http://h/2", suffix |-> ".png"]
UrlC == [stem |-> "http://h/3", suffix |-> ""]

\* an element of urls that is not a string (None)
UrlNone == [none |-> TRUE]

\* Path(url) accepts url: it is a string
IsStr(url) == "suffix" \in DOMAIN url

\* the k-th asset url of the sample jobs: the three url shapes in turn
UrlAt(k) == IF k % 3 = 1 THEN UrlA ELSE IF k % 3 = 2 THEN UrlB ELSE UrlC

UrlsOfLen(n) == [k \in 1..n |-> UrlAt(k)]

\* the keyword arguments of download_chapter; chapters are numbered
MkJob(chapter, urls, source_url, sem_limit) ==
    [manga_title |-> "m", chapter_title |-> chapter, urls |-> urls,
     source_url |-> source_url, sem_limit |-> sem_limit]

\* a job description with the required keys only
BareJob(chapter, urls) ==
    [manga_title |-> "m", chapter_title |-> chapter, urls |-> urls]

\* the job description trigger_download builds for its id-th request, which is
\* also what eval gives for its JSON text
ServerJob(id) == [id |-> id, url |-> "mangapill.com", title |-> "m",
                  total_chapters |-> 1, status |-> "queued"]

\* a text in download_jobs that eval rejects
Unparsable == [error |-> "SyntaxError"]

\* the parameters of download_chapter without a default, and all of them
Required == {"manga_title", "chapter_title", "urls"}
Accepted == Required \cup {"source_url", "sem_limit"}

\* eval(job[1]) gives a dict and download_chapter(**data) binds it
Binds(data) == Required \subseteq DOMAIN data /\ DOMAIN data \subseteq Accepted

\* the parameters of download_chapter as the call binds them: source_url=None,
\* which source_url or "" reads as "", and sem_limit=8 where data has none
Bound(data) ==
    [manga_title |-> data.manga_title, chapter_title |-> data.chapter_title,
     urls |-> data.urls,
     source_url |-> IF "source_url" \in DOMAIN data THEN data.source_url ELSE "",
     sem_limit |-> IF "sem_limit" \in DOMAIN data THEN data.sem_limit
                   ELSE DefaultSemLimit]

NoJob == [manga_title |-> "", chapter_title |-> 0, urls |-> << >>,
          source_url |-> "", sem_limit |-> 0]

\* the frame of one save(i, url): where it is, the chunks of the body it has
\* passed to f.write (recv), how many of them are still in the buffer of f (buf),
\* the outcome it reports, and the locals of _record_result (rsucc, rerr) and
\* _auto_adjust_limit (asucc, aerr, cur)
NewTask == [pc |-> "start", recv |-> 0, buf |-> 0, ok |-> FALSE, rsucc |-> 0,
            rerr |-> 0, asucc |-> 0, aerr |-> 0, cur |-> 0]

DoneTask == [NewTask EXCEPT !.pc = "done"]

\* a save(i, url) that ended with an exception
RaisedTask == [NewTask EXCEPT !.pc = "raised"]

Src(w) == SourceOf(job[w].source_url)

Total(w) == Len(job[w].urls)

Idx(w) == DOMAIN tasks[w]

----------------------------------------------------------------------------
(* worker.main: the consumer loop *)

\* a loop that starts download_chapter without awaiting it: the next job is
\* popped while the last is in its fan-out
Pop_NoAwait(w) ==
    /\ wpc[w] \in {"pop", "gather"}
    /\ queue # << >>
    /\ Binds(Head(queue))
    /\ job' = [job EXCEPT ![w] = Bound(Head(queue))]
    /\ queue' = Tail(queue)
    /\ wpc' = [wpc EXCEPT ![w] = "acq_limit"]
    /\ UNCHANGED <<store, files, config, server, lim, done, sem, fetches, failed, tasks>>

\* job = await redis.blpop("download_jobs", timeout=5), a job was waiting:
\* data = eval(job[1]); download_chapter(**data) is entered and resolves the source
Pop(w) ==
    /\ wpc[w] = "pop"
    /\ queue # << >>
    /\ Binds(Head(queue))
    /\ job' = [job EXCEPT ![w] = Bound(Head(queue))]
    /\ queue' = Tail(queue)
    /\ wpc' = [wpc EXCEPT ![w] = "acq_limit"]
    /\ UNCHANGED <<store, files, config, server, lim, done, sem, fetches, failed, tasks>>

\* a job was waiting and eval(job[1]) or the call download_chapter(**data) raises:
\* nothing in main catches it, asyncio.run(main()) ends
PopBad(w) ==
    /\ wpc[w] = "pop"
    /\ queue # << >>
    /\ ~Binds(Head(queue))
    /\ queue' = Tail(queue)
    /\ wpc' = [wpc EXCEPT ![w] = "crashed"]
    /\ UNCHANGED <<store, files, config, server, job, lim, done, sem, fetches, failed, tasks>>

\* blpop timed out: if not job
PopTimeout(w) ==
    /\ wpc[w] = "pop"
    /\ queue = << >>
    /\ wpc' = [wpc EXCEPT ![w] = "sleep"]
    /\ UNCHANGED <<store, queue, files, config, server, job, lim, done, sem, fetches, failed, tasks>>

\* await asyncio.sleep(1); continue
Sleep(w) ==
    /\ wpc[w] = "sleep"
    /\ wpc' = [wpc EXCEPT ![w] = "pop"]
    /\ UNCHANGED <<store, queue, files, config, server, job, lim, done, sem, fetches, failed, tasks>>

----------------------------------------------------------------------------
(* _acquire_slot / _release_slot *)

\* limit = await self._get_limit(source)
AcqGetLimit(w) ==
    /\ wpc[w] = "acq_limit"
    /\ lim' = [lim EXCEPT ![w] = GetLimit(limit, Src(w), default_limit)]
    /\ wpc' = [wpc EXCEPT ![w] = "acq_active"]
    /\ UNCHANGED <<store, queue, files, config, server, job, done, sem, fetches, failed, tasks>>

\* the check written as active + 1 < limit
AcqGetActive_Strict(w) ==
    /\ wpc[w] = "acq_active"
    /\ wpc' = [wpc EXCEPT ![w] =
                 IF GetInt(active, Src(w)) + 1 < lim[w] THEN "acq_incr" ELSE "acq_limit"]
    /\ lim' = [lim EXCEPT ![w] = IF GetInt(active, Src(w)) + 1 < lim[w] THEN @ ELSE 0]
    /\ UNCHANGED <<store, queue, files, config, server, job, done, sem, fetches, failed, tasks>>

\* the check written as active <= limit
AcqGetActive_AtMost(w) ==
    /\ wpc[w] = "acq_active"
    /\ wpc' = [wpc EXCEPT ![w] =
                 IF GetInt(active, Src(w)) <= lim[w] THEN "acq_incr" ELSE "acq_limit"]
    /\ lim' = [lim EXCEPT ![w] = IF GetInt(active, Src(w)) <= lim[w] THEN @ ELSE 0]
    /\ UNCHANGED <<store, queue, files, config, server, job, done, sem, fetches, failed, tasks>>

\* active = int(await self.redis.get(key) or 0); if active < limit ... else sleep(1)
AcqGetActive(w) ==
    /\ wpc[w] = "acq_active"
    /\ wpc' = [wpc EXCEPT ![w] =
                 IF GetInt(active, Src(w)) < lim[w] THEN "acq_incr" ELSE "acq_limit"]
    /\ lim' = [lim EXCEPT ![w] = IF GetInt(active, Src(w)) < lim[w] THEN @ ELSE 0]
    /\ UNCHANGED <<store, queue, files, config, server, job, done, sem, fetches, failed, tasks>>

\* await self.redis.incr(key); return.  Then, in download_chapter: folder.mkdir,
\* sem = asyncio.Semaphore(sem_limit), total, done = len(urls), 0 and the
\* save(i, u) coroutines handed to asyncio.gather
AcqIncr(w) ==
    /\ wpc[w] = "acq_incr"
    /\ active' = Incr(active, Src(w))
    /\ lim' = [lim EXCEPT ![w] = 0]
    /\ sem' = [sem EXCEPT ![w] = job[w].sem_limit]
    /\ done' = [done EXCEPT ![w] = 0]
    /\ fetches' = [fetches EXCEPT ![w] = 0]
    /\ failed' = [failed EXCEPT ![w] = 0]
    /\ tasks' = [tasks EXCEPT ![w] = [i \in 1..Total(w) |-> NewTask]]
    /\ wpc' = [wpc EXCEPT ![w] = "gather"]
    /\ UNCHANGED <<succ, err, limit, queue, files, config, server, job>>

\* await self.redis.incr(key); return.  Then folder.mkdir(parents=True,
\* exist_ok=True) raises OSError: control goes to the finally clause
MkdirFail(w) ==
    /\ wpc[w] = "acq_incr"
    /\ "mkdir" \in net
    /\ active' = Incr(active, Src(w))
    /\ lim' = [lim EXCEPT ![w] = 0]
    /\ wpc' = [wpc EXCEPT ![w] = "unwind"]
    /\ UNCHANGED <<succ, err, limit, queue, files, config, server, job, done, sem, fetches, failed, tasks>>

\* asyncio.gather (return_exceptions=False) hands the first exception of a
\* save(i, u) to download_chapter at once; the other coroutines keep running.
\* The event loop has by then run every save(i, u) up to its first await.
GatherRaise(w) ==
    /\ wpc[w] = "gather"
    /\ \E i \in Idx(w) : tasks[w][i].pc = "raised"
    /\ \A i \in Idx(w) :
         /\ tasks[w][i].pc # "start"
         /\ tasks[w][i].pc = "wait_sem" => sem[w] = 0
    /\ wpc' = [wpc EXCEPT ![w] = "unwind"]
    /\ UNCHANGED <<store, queue, files, config, server, job, lim, done, sem, fetches, failed, tasks>>

\* asyncio.gather returned: console.log(f"... {done}/{total}")
GatherDone(w) ==
    /\ wpc[w] = "gather"
    /\ \A i \in Idx(w) : tasks[w][i].pc = "done"
    /\ wpc' = [wpc EXCEPT ![w] = "release"]
    /\ UNCHANGED <<store, queue, files, config, server, job, lim, done, sem, fetches, failed, tasks>>

\* finally: await self._release_slot(source); download_chapter returns to main
Release(w) ==
    /\ wpc[w] = "release"
    /\ active' = Decr(active, Src(w))
    /\ wpc' = [wpc EXCEPT ![w] = "pop"]
    /\ job' = [job EXCEPT ![w] = NoJob]
    /\ done' = [done EXCEPT ![w] = 0]
    /\ sem' = [sem EXCEPT ![w] = 0]
    /\ fetches' = [fetches EXCEPT ![w] = 0]
    /\ failed' = [failed EXCEPT ![w] = 0]
    /\ tasks' = [tasks EXCEPT ![w] = << >>]
    /\ UNCHANGED <<succ, err, limit, queue, files, config, server, lim>>

\* the release written after the fan-out instead of in a finally clause: an
\* exception skips it
ReleaseRaise_NoFinally(w) ==
    /\ wpc[w] = "unwind"
    /\ wpc' = [wpc EXCEPT ![w] = "raise"]
    /\ UNCHANGED <<store, queue, files, config, server, job, lim, done, sem, fetches, failed, tasks>>

\* finally: await self._release_slot(source) with an exception in flight: redis
\* applies the DECR.  Until its reply is read the event loop goes on running
\* the save(i, u) coroutines that are left
ReleaseRaise(w) ==
    /\ wpc[w] = "unwind"
    /\ active' = Decr(active, Src(w))
    /\ wpc' = [wpc EXCEPT ![w] = "raise"]
    /\ UNCHANGED <<succ, err, limit, queue, files, config, server, job, lim, done, sem, fetches, failed, tasks>>

\* the chunks f of task t holds in its buffer, each at its offset in the file
Buffered(t) == (t.recv - t.buf + 1)..t.recv

\* the file system after f of task t is flushed or closed: what f.write has
\* buffered reaches the disk, at the offsets f has counted since its open
Closed(fs, p, t) ==
    IF t.buf > 0 THEN WriteFile(fs, p, fs[p] \cup Buffered(t)) ELSE fs

\* the file system after every save(i, u) of worker w that is writing its file
\* has been cancelled: with open(dest, "wb") as f closes f
CancelAll(fs, w) ==
    [p \in DOMAIN fs |->
        fs[p] \cup UNION {Buffered(tasks[w][i]) :
                            i \in {k \in DOMAIN tasks[w] :
                                      /\ tasks[w][k].pc = "streaming"
                                      /\ Dest(job[w], k) = p}}]

\* the reply of the DECR is read: the exception leaves download_chapter and
\* main, and asyncio.run cancels the save(i, u) coroutines that are left
Crash(w) ==
    /\ wpc[w] = "raise"
    /\ files' = CancelAll(files, w)
    /\ wpc' = [wpc EXCEPT ![w] = "crashed"]
    /\ job' = [job EXCEPT ![w] = NoJob]
    /\ done' = [done EXCEPT ![w] = 0]
    /\ sem' = [sem EXCEPT ![w] = 0]
    /\ fetches' = [fetches EXCEPT ![w] = 0]
    /\ failed' = [failed EXCEPT ![w] = 0]
    /\ tasks' = [tasks EXCEPT ![w] = << >>]
    /\ UNCHANGED <<store, queue, config, server, lim>>

----------------------------------------------------------------------------
(* download_chapter.save(i, url) *)

Task(w, i) == tasks[w][i]

SetTask(w, i, t) == tasks' = [tasks EXCEPT ![w][i] = t]

\* save(i, url) of worker w is at pc: it runs while download_chapter waits in
\* gather, and on while the finally clause awaits the release and its reply
Running(w, i, at) ==
    wpc[w] \in {"gather", "unwind", "raise"} /\ i \in Idx(w) /\ tasks[w][i].pc = at

\* ext = Path(url).suffix or ".jpg" raises TypeError when url is not a string
\* (outside the try); dest = folder / f"{i:03d}{ext}";
\* if dest.exists() and dest.stat().st_size > 0: return
SaveStart(w, i) ==
    /\ Running(w, i, "start")
    /\ SetTask(w, i, IF ~IsStr(job[w].urls[i])
                     THEN RaisedTask
                     ELSE IF ExistsNonEmpty(files, Dest(job[w], i))
                     THEN DoneTask
                     ELSE [Task(w, i) EXCEPT !.pc = "wait_sem"])
    /\ UNCHANGED <<store, queue, files, config, server, wpc, job, lim, done, sem, fetches, failed>>

\* a fetch that starts without waiting for a permit of sem
FetchBegin_NoCap(w, i) ==
    /\ Running(w, i, "wait_sem")
    /\ sem' = [sem EXCEPT ![w] = @ - 1]
    /\ fetches' = [fetches EXCEPT ![w] = @ + 1]
    /\ SetTask(w, i, [Task(w, i) EXCEPT !.pc = "fetching"])
    /\ UNCHANGED <<store, queue, files, config, server, wpc, job, lim, done, failed>>

\* async with sem, self.client.stream("GET", url) as r: the semaphore is taken and
\* the request is sent
FetchBegin(w, i) ==
    /\ Running(w, i, "wait_sem")
    /\ sem[w] > 0
    /\ sem' = [sem EXCEPT ![w] = @ - 1]
    /\ fetches' = [fetches EXCEPT ![w] = @ + 1]
    /\ SetTask(w, i, [Task(w, i) EXCEPT !.pc = "fetching"])
    /\ UNCHANGED <<store, queue, files, config, server, wpc, job, lim, done, failed>>

\* r.raise_for_status() passed: with open(dest, "wb") as f creates or truncates dest
FetchOpen(w, i) ==
    /\ Running(w, i, "fetching")
    /\ files' = WriteFile(files, Dest(job[w], i), {})
    /\ SetTask(w, i, [Task(w, i) EXCEPT !.pc = "streaming"])
    /\ UNCHANGED <<store, queue, config, server, wpc, job, lim, done, sem, fetches, failed>>

\* the chunks of a body: the origin sends none, one, or MaxChunks of them
Body == IF "empty" \in net THEN {} ELSE IF "long" \in net THEN 1..MaxChunks ELSE {1}

\* the next chunk of the body arrives: f.write(chunk).  By its size the chunk
\* joins the buffer of f ("keep"), goes to the buffer after what was there has
\* been written out ("flush"), or is written out with it ("through")
FetchChunk(w, i) ==
    /\ Running(w, i, "streaming")
    /\ Task(w, i).recv + 1 \in Body
    /\ \E how \in {"keep", "flush", "through"} :
         LET t == Task(w, i)
             p == Dest(job[w], i)
             u == [t EXCEPT !.recv = @ + 1, !.buf = @ + 1]
         IN  IF how = "keep"
             THEN files' = files /\ SetTask(w, i, u)
             ELSE IF how = "flush"
             THEN files' = Closed(files, p, t) /\ SetTask(w, i, [u EXCEPT !.buf = 1])
             ELSE files' = Closed(files, p, u) /\ SetTask(w, i, [u EXCEPT !.buf = 0])
    /\ UNCHANGED <<store, queue, config, server, wpc, job, lim, done, sem, fetches, failed>>

\* the body has ended: every chunk of it has been passed to f.write
BodyEnds(t) == t.recv = Cardinality(Body)

\* Image.open(dest).convert("RGB") can raise on what the close of f leaves at
\* dest: it is not the body, the body is empty, or the origin sends bodies that
\* are no images
ReencodeFails(fs, p, t) ==
    \/ Closed(fs, p, t)[p] # Body
    \/ Body = {}
    \/ "image" \in net

\* Image.open(dest).convert("RGB") and img.save(dest, "JPEG", ...) can succeed on
\* what the close of f leaves at dest: it is the body, and not empty
ReencodeWorks(fs, p, t) == Closed(fs, p, t)[p] = Body /\ Body # {}

\* What a fetch that fails leaves at dest.  Before the file is opened the request
\* or raise_for_status failed and nothing is written; after, the stream broke
\* or (compress_images) the re-encoding failed, and f has been closed with the
\* chunks it got
FailureLeaves(fs, p, t) ==
    IF t.pc = "fetching" THEN fs ELSE Closed(fs, p, t)

\* the failures this run can produce at a point of a fetch
CanFail(fs, p, t) ==
    IF t.pc = "fetching" THEN "status" \in net
    ELSE \/ "stream" \in net
         \/ compress_images /\ BodyEnds(t) /\ ReencodeFails(fs, p, t)

\* the body has ended and f is closed; if self.compress_images, the file was
\* re-encoded, which leaves the whole image at dest; done += 1; the with block
\* has released the semaphore
FetchOk(w, i) ==
    /\ Running(w, i, "streaming")
    /\ BodyEnds(Task(w, i))
    /\ compress_images => ReencodeWorks(files, Dest(job[w], i), Task(w, i))
    /\ files' = Closed(files, Dest(job[w], i), Task(w, i))
    /\ sem' = [sem EXCEPT ![w] = @ + 1]
    /\ done' = [done EXCEPT ![w] = @ + 1]
    /\ SetTask(w, i, [Task(w, i) EXCEPT !.pc = "rec_incr", !.ok = TRUE,
                                        !.recv = 0, !.buf = 0])
    /\ UNCHANGED <<store, queue, config, server, wpc, job, lim, fetches, failed>>

\* a failure of the fetch that no except clause catches: it ends save(i, url)
FetchFail_Propagates(w, i) ==
    /\ wpc[w] \in {"gather", "unwind", "raise"} /\ i \in Idx(w)
    /\ Task(w, i).pc \in {"fetching", "streaming"}
    /\ CanFail(files, Dest(job[w], i), Task(w, i))
    /\ files' = FailureLeaves(files, Dest(job[w], i), Task(w, i))
    /\ sem' = [sem EXCEPT ![w] = @ + 1]
    /\ failed' = [failed EXCEPT ![w] = @ + 1]
    /\ SetTask(w, i, RaisedTask)
    /\ UNCHANGED <<store, queue, config, server, wpc, job, lim, done, fetches>>

\* except Exception as e: the with block releases the semaphore, the failure is
\* logged
FetchFail(w, i) ==
    /\ wpc[w] \in {"gather", "unwind", "raise"} /\ i \in Idx(w)
    /\ Task(w, i).pc \in {"fetching", "streaming"}
    /\ CanFail(files, Dest(job[w], i), Task(w, i))
    /\ files' = FailureLeaves(files, Dest(job[w], i), Task(w, i))
    /\ sem' = [sem EXCEPT ![w] = @ + 1]
    /\ failed' = [failed EXCEPT ![w] = @ + 1]
    /\ SetTask(w, i, [Task(w, i) EXCEPT !.pc = "rec_incr", !.ok = FALSE,
                                        !.recv = 0, !.buf = 0])
    /\ UNCHANGED <<store, queue, config, server, wpc, job, lim, done, fetches>>

----------------------------------------------------------------------------
(* _record_result(source, success) *)

\* await self.redis.incr(f"{base}:success") or (f"{base}:error"), then
\* if random.random() < 0.1
RecIncr(w, i) ==
    /\ Running(w, i, "rec_incr")
    /\ IF Task(w, i).ok
         THEN succ' = Incr(succ, Src(w)) /\ err' = err
         ELSE err' = Incr(err, Src(w)) /\ succ' = succ
    /\ \E fires \in BOOLEAN :
         SetTask(w, i, [Task(w, i) EXCEPT
                          !.pc = IF fires THEN "rec_get_succ" ELSE "adj_get_succ"])
    /\ UNCHANGED <<limit, active, queue, files, config, server, wpc, job, lim, done, sem, fetches, failed>>

\* succ = int(await self.redis.get(f"{base}:success") or 0)
RecGetSucc(w, i) ==
    /\ Running(w, i, "rec_get_succ")
    /\ SetTask(w, i, [Task(w, i) EXCEPT !.pc = "rec_get_err",
                                        !.rsucc = GetInt(succ, Src(w))])
    /\ UNCHANGED <<store, queue, files, config, server, wpc, job, lim, done, sem, fetches, failed>>

\* err = int(await self.redis.get(f"{base}:error") or 0); if succ + err > 200
RecGetErr(w, i) ==
    /\ Running(w, i, "rec_get_err")
    /\ SetTask(w, i, [Task(w, i) EXCEPT
                        !.pc = IF DecayDue(Task(w, i).rsucc, GetInt(err, Src(w)))
                               THEN "rec_set_succ" ELSE "adj_get_succ",
                        !.rerr = GetInt(err, Src(w))])
    /\ UNCHANGED <<store, queue, files, config, server, wpc, job, lim, done, sem, fetches, failed>>

\* await self.redis.set(f"{base}:success", succ // 2)
RecSetSucc(w, i) ==
    /\ Running(w, i, "rec_set_succ")
    /\ succ' = Put(succ, Src(w), Halve(Task(w, i).rsucc))
    /\ SetTask(w, i, [Task(w, i) EXCEPT !.pc = "rec_set_err"])
    /\ UNCHANGED <<err, limit, active, queue, files, config, server, wpc, job, lim, done, sem, fetches, failed>>

\* await self.redis.set(f"{base}:error", err // 2)
RecSetErr(w, i) ==
    /\ Running(w, i, "rec_set_err")
    /\ err' = Put(err, Src(w), Halve(Task(w, i).rerr))
    /\ SetTask(w, i, [Task(w, i) EXCEPT !.pc = "adj_get_succ"])
    /\ UNCHANGED <<succ, limit, active, queue, files, config, server, wpc, job, lim, done, sem, fetches, failed>>

----------------------------------------------------------------------------
(* _auto_adjust_limit(source) *)

\* succ = int(await self.redis.get(f"dl_stats:{source}:success") or 0)
AdjGetSucc(w, i) ==
    /\ Running(w, i, "adj_get_succ")
    /\ SetTask(w, i, [Task(w, i) EXCEPT !.pc = "adj_get_err",
                                        !.asucc = GetInt(succ, Src(w))])
    /\ UNCHANGED <<store, queue, files, config, server, wpc, job, lim, done, sem, fetches, failed>>

\* err = int(await self.redis.get(f"dl_stats:{source}:error") or 0);
\* total = succ + err; if total < 10: return
AdjGetErr(w, i) ==
    /\ Running(w, i, "adj_get_err")
    /\ SetTask(w, i, IF HasSignal(Task(w, i).asucc, GetInt(err, Src(w)))
                     THEN [Task(w, i) EXCEPT !.pc = "adj_get_limit",
                                             !.aerr = GetInt(err, Src(w))]
                     ELSE DoneTask)
    /\ UNCHANGED <<store, queue, files, config, server, wpc, job, lim, done, sem, fetches, failed>>

\* current = await self._get_limit(source); rate = err / total; neither branch
\* taken: the call returns
AdjGetLimit(w, i) ==
    /\ Running(w, i, "adj_get_limit")
    /\ LET current == GetLimit(limit, Src(w), default_limit)
       IN  SetTask(w, i, IF AdjustDecision(Task(w, i).asucc, Task(w, i).aerr, current) = "keep"
                         THEN DoneTask
                         ELSE [Task(w, i) EXCEPT !.pc = "adj_set", !.cur = current])
    /\ UNCHANGED <<store, queue, files, config, server, wpc, job, lim, done, sem, fetches, failed>>

\* await self._set_limit(source, new)
AdjSet(w, i) ==
    /\ Running(w, i, "adj_set")
    /\ limit' = Put(limit, Src(w),
                    NewLimit(Task(w, i).asucc, Task(w, i).aerr, Task(w, i).cur))
    /\ SetTask(w, i, DoneTask)
    /\ UNCHANGED <<succ, err, active, queue, files, config, server, wpc, job, lim, done, sem, fetches, failed>>

----------------------------------------------------------------------------
(* trigger_download, POST /api/v1/download of the web server *)

\* the download requests of a run, named by their job_id = str(uuid.uuid4())
Requests == {"r1"}

\* the url is valid and scrape_manga found chapters:
\* await r.set(f"job:{job_id}", json.dumps(job_data))
TriggerSet(r) ==
    /\ req[r] = "new"
    /\ jobrec' = Put(jobrec, r, ServerJob(r))
    /\ req' = [req EXCEPT ![r] = "lpush"]
    /\ UNCHANGED <<store, queue, files, config, cancel, wpc, job, lim, done, sem, fetches, failed, tasks>>

\* await r.lpush("download_jobs", json.dumps(job_data)): the text goes to the
\* head of the list, where blpop takes from
TriggerPush(r) ==
    /\ req[r] = "lpush"
    /\ queue' = <<ServerJob(r)>> \o queue
    /\ req' = [req EXCEPT ![r] = "done"]
    /\ UNCHANGED <<store, files, config, jobrec, cancel, wpc, job, lim, done, sem, fetches, failed, tasks>>

----------------------------------------------------------------------------
(* cancel_download, POST /api/v1/cancel/{job_id} of the web server *)

\* a cancel_download that has read nothing
Unread == [pc |-> "new", job |-> ServerJob("")]

\* job_data = await r.get(f"job:{job_id}");
\* if not job_data: raise HTTPException(404, "Job not found")
CancelGet(r) ==
    /\ cancel[r].pc = "new"
    /\ cancel' = [cancel EXCEPT ![r] =
                    IF r \in DOMAIN jobrec
                    THEN [pc |-> "set", job |-> jobrec[r]]
                    ELSE [Unread EXCEPT !.pc = "done"]]
    /\ UNCHANGED <<store, queue, files, config, jobrec, req, wpc, job, lim, done, sem,
                   fetches, failed, tasks>>

\* job = json.loads(job_data); job["status"] = "cancelled";
\* await r.set(f"job:{job_id}", json.dumps(job))
CancelSet(r) ==
    /\ cancel[r].pc = "set"
    /\ jobrec' = Put(jobrec, r, [cancel[r].job EXCEPT !.status = "cancelled"])
    /\ cancel' = [cancel EXCEPT ![r] = [Unread EXCEPT !.pc = "done"]]
    /\ UNCHANGED <<store, queue, files, config, req, wpc, job, lim, done, sem, fetches,
                   failed, tasks>>

\* the web server gets a download request and a cancel request for each job id
\* of Requests in this run, or none
Requested ==
    /\ req = [r \in Requests |-> "new"]
    /\ cancel = [r \in Requests |-> Unread]
Unrequested ==
    /\ req = [r \in Requests |-> "off"]
    /\ cancel = [r \in Requests |-> [Unread EXCEPT !.pc = "off"]]

----------------------------------------------------------------------------
(* Initial states *)

\* the empty key space, and the one holding v under key k
NoKeys == [k \in {} |-> 0]
OneKey(k, v) == Put(NoKeys, k, v)

\* Counters a source can have reached, around the thresholds of the controller
\* (10 signals, rates 0.05 and 0.30, decay above 200)
CounterSamples ==
    {<<0, 0>>, <<9, 0>>, <<0, 8>>, <<0, 9>>, <<8, 1>>, <<6, 3>>, <<7, 3>>, <<13, 6>>,
     <<19, 0>>, <<19, 1>>, <<18, 1>>, <<150, 60>>, <<199, 0>>, <<200, 0>>, <<140, 60>>}

\* dl_limit:<k> never written, or holding a limit of the controller's range
LimitSamples(k) == {NoKeys} \cup {OneKey(k, l) : l \in MinLimit..MaxLimit}

\* DL_GLOBAL_LIMIT as the operator may set it
DefaultLimitSamples == {MinLimit, DefaultLimit, MaxLimit}

Counters(k, c) == IF c = 0 THEN NoKeys ELSE OneKey(k, c)

Workless ==
    /\ jobrec = NoKeys
    /\ job = [w \in Workers |-> NoJob]
    /\ lim = [w \in Workers |-> 0]
    /\ done = [w \in Workers |-> 0]
    /\ sem = [w \in Workers |-> 0]
    /\ fetches = [w \in Workers |-> 0]
    /\ failed = [w \in Workers |-> 0]
    /\ tasks = [w \in Workers |-> << >>]

\* what eval(job[1]) gives for the malformed texts sampled: a job description
\* of the web server and a text that is no expression
Malformed == {ServerJob("r0"), Unparsable}

\* Runs of the worker processes ws on a fresh store in which something other
\* than a fetch goes wrong: a job description that download_chapter cannot
\* bind, a url that is not a string, or a directory that cannot be created
FaultRun(ws, source_url) ==
    /\ succ = NoKeys /\ err = NoKeys
    /\ limit = NoKeys
    /\ default_limit = DefaultLimit
    /\ compress_images = FALSE
    /\ active = NoKeys
    /\ files = NoKeys
    /\ \/ /\ \E m \in Malformed :
                queue = <<m, MkJob(1, <<UrlA>>, source_url, DefaultSemLimit)>>
          /\ net = {"status", "stream"}
          /\ Requested
       \* the job is queued once, or once for every worker process
       \/ /\ \E k \in {1, Cardinality(ws)} :
                queue = [c \in 1..k |->
                           MkJob(1, <<UrlNone, UrlA>>, source_url, DefaultSemLimit)]
          /\ net = {"status", "stream", "long"}
          /\ Unrequested
       \/ /\ queue = <<MkJob(1, <<UrlA>>, source_url, DefaultSemLimit)>>
          /\ net = {"mkdir"}
          /\ Unrequested
    /\ wpc = [w \in Workers |-> IF w \in ws THEN "pop" ELSE "off"]
    /\ Workless

\* One worker process, one asset per job: the calls of _record_result follow
\* one another, from any sampled state of the store
InitSeq ==
  \/ FaultRun({"w1"}, "mangapill.com")
  \/
    /\ \E c \in CounterSamples :
         /\ succ = Counters("mangapill", c[1])
         /\ err = Counters("mangapill", c[2])
    /\ limit \in LimitSamples("mangapill")
    /\ default_limit \in DefaultLimitSamples
    /\ compress_images = FALSE
    /\ net = {"status", "stream"}
    /\ active = NoKeys
    /\ files = NoKeys
    /\ queue = <<MkJob(1, <<UrlA>>, "mangapill.com", DefaultSemLimit)>>
    /\ wpc = [w \in Workers |-> IF w = "w1" THEN "pop" ELSE "off"]
    /\ Workless
    /\ Unrequested

\* the files a complete earlier run of job j has left
FilesOfRun(j) ==
    [p \in {Dest(j, i) : i \in DOMAIN j.urls} |-> Body]

\* One worker process and one chapter of up to MaxAssets pages under a fan-out
\* cap, downloaded for the first time or again after a complete run
InitJob ==
  \/ FaultRun({"w1"}, "mangapill.com")
  \/
    /\ limit = NoKeys
    /\ default_limit = DefaultLimit
    \* COMPRESS_IMAGES unset or "true"; an origin whose requests and streams can
    \* fail, one that sends empty bodies, or one whose bodies may be no images;
    \* bodies that are not empty come in MaxChunks chunks
    /\ \E o \in {<<FALSE, {"status", "stream", "long"}>>, <<FALSE, {"empty"}>>,
                 <<TRUE, {"image", "long"}>>, <<TRUE, {"empty"}>>} :
         compress_images = o[1] /\ net = o[2]
    /\ active = NoKeys
    /\ \E n \in 1..MaxAssets, c \in {1, 2, DefaultSemLimit} :
         /\ queue = <<MkJob(1, UrlsOfLen(n), "mangapill.com", c)>>
         /\ files \in {NoKeys, FilesOfRun(queue[1])}
         \* a source about to decay is sampled with the one-page chapter
         /\ \E k \in (IF n = 1 THEN {<<0, 0>>, <<200, 0>>} ELSE {<<0, 0>>}) :
              /\ succ = Counters("mangapill", k[1])
              /\ err = Counters("mangapill", k[2])
    /\ wpc = [w \in Workers |-> IF w = "w1" THEN "pop" ELSE "off"]
    /\ Workless
    /\ Unrequested

\* Two worker processes share the store and the queue
Init ==
  \/ FaultRun(Workers, "mangapill.com")
  \/
    /\ limit \in {NoKeys, OneKey("mangapill", MinLimit), OneKey("mangapill", MaxLimit)}
    /\ default_limit = DefaultLimit
    /\ compress_images = FALSE
    /\ net = {"status", "stream"}
    /\ active = NoKeys
    /\ files = NoKeys
    /\ \E k \in 1..MaxJobs :
         /\ queue \in [1..k -> {MkJob(1, UrlsOfLen(1), "mangapill.com", DefaultSemLimit),
                                BareJob(2, UrlsOfLen(1))}]
         \* a source about to decay is sampled with the queue of one job
         /\ \E c \in {<<9, 0>>, <<6, 3>>}
                      \cup (IF k = 1 THEN {<<DecayThreshold, 0>>} ELSE {}) :
              /\ succ = Counters("mangapill", c[1])
              /\ err = Counters("mangapill", c[2])
    /\ wpc = [w \in Workers |-> "pop"]
    /\ Workless
    /\ Unrequested

\* Two worker processes contend for the one slot of a source of limit 1, over
\* a queue of two to MaxJobs chapters
InitLive ==
  \/ FaultRun({"w1"}, "mangapill.com")
  \/
    /\ default_limit = DefaultLimit
    /\ compress_images = FALSE
    /\ net = {"status", "stream"}
    /\ active = NoKeys
    /\ files = NoKeys
    /\ \E k \in 2..MaxJobs :
         /\ queue = [c \in 1..k |-> MkJob(c, <<UrlA>>, "mangapill.com", DefaultSemLimit)]
         \* a source about to decay is sampled with the queue of two chapters,
         \* with the limit at its floor and with no limit stored yet
         /\ \E c \in (IF k = 2 THEN {<<0, 0>>, <<DecayThreshold, 0>>} ELSE {<<0, 0>>}) :
              /\ succ = Counters("mangapill", c[1])
              /\ err = Counters("mangapill", c[2])
              /\ limit \in {OneKey("mangapill", MinLimit)}
                            \cup (IF c[1] = DecayThreshold THEN {NoKeys} ELSE {})
    /\ wpc = [w \in Workers |-> "pop"]
    /\ Workless
    /\ Unrequested

\* The two scenarios of the controller, on one worker process: a fresh source
\* with limit 3 that sees ten outcomes, one per chapter, the failures being
\* error statuses; and a source whose counters have reached (150, 60)
InitScenario ==
  \/ FaultRun({"w1"}, "")
  \/
    /\ \/ /\ succ = NoKeys /\ err = NoKeys
          /\ limit \in {NoKeys, OneKey("global", DefaultLimit)}
          /\ queue = [k \in 1..ScenarioJobs |->
                        MkJob(k, <<UrlAt(k)>>, "", DefaultSemLimit)]
          /\ net = {"status"}
       \/ /\ succ = OneKey("global", 150) /\ err = OneKey("global", 60)
          /\ limit \in LimitSamples("global")
          /\ queue = <<MkJob(1, <<UrlA>>, "", DefaultSemLimit)>>
          /\ net = {"status", "stream"}
    /\ default_limit = DefaultLimit
    /\ compress_images = FALSE
    /\ active = NoKeys
    /\ files = NoKeys
    /\ wpc = [w \in Workers |-> IF w = "w1" THEN "pop" ELSE "off"]
    /\ Workless
    /\ Unrequested

----------------------------------------------------------------------------
(* Next-state relation and specifications *)

\* the indices enumerate(urls, 1) can give
TaskIds == 1..MaxAssets

WorkerStep(w) ==
    \/ Pop(w)
    \/ PopBad(w)
    \/ PopTimeout(w)
    \/ Sleep(w)
    \/ AcqGetLimit(w)
    \/ AcqGetActive(w)
    \/ AcqIncr(w)
    \/ MkdirFail(w)
    \/ GatherRaise(w)
    \/ GatherDone(w)
    \/ Release(w)
    \/ ReleaseRaise(w)
    \/ Crash(w)

TaskStep(w, i) ==
    \/ SaveStart(w, i)
    \/ FetchBegin(w, i)
    \/ FetchOpen(w, i)
    \/ FetchChunk(w, i)
    \/ FetchOk(w, i)
    \/ FetchFail(w, i)
    \/ RecIncr(w, i)
    \/ RecGetSucc(w, i)
    \/ RecGetErr(w, i)
    \/ RecSetSucc(w, i)
    \/ RecSetErr(w, i)
    \/ AdjGetSucc(w, i)
    \/ AdjGetErr(w, i)
    \/ AdjGetLimit(w, i)
    \/ AdjSet(w, i)

ServerStep(r) ==
    \/ TriggerSet(r)
    \/ TriggerPush(r)
    \/ CancelGet(r)
    \/ CancelSet(r)

Next ==
    \/ \E w \in Workers : WorkerStep(w)
    \/ \E w \in Workers : \E i \in TaskIds : TaskStep(w, i)
    \/ \E r \in Requests : ServerStep(r)

Spec == Init /\ [][Next]_vars

SpecSeq == InitSeq /\ [][Next]_vars

SpecJob == InitJob /\ [][Next]_vars

SpecScenario == InitScenario /\ [][Next]_vars

\* Every worker process keeps running, and so does every save(i, u) coroutine
\* of its event loop: redis commands and requests come back (the client has a
\* request timeout)
Fairness ==
    \A w \in Workers :
       /\ WF_vars(WorkerStep(w))
       /\ \A i \in TaskIds : WF_vars(TaskStep(w, i))

SpecLive == InitLive /\ [][Next]_vars /\ Fairness

----------------------------------------------------------------------------
(* Properties *)

\* the limit _get_limit returns for source s
LimitOf(s) == GetLimit(limit, s, default_limit)

SuccOf(s) == GetInt(succ, s)
ErrOf(s) == GetInt(err, s)

AdjustPcs == {"adj_get_succ", "adj_get_err", "adj_get_limit", "adj_set"}

\* save(i, url) of worker w is inside _auto_adjust_limit
InAdjust(w, i) == wpc[w] = "gather" /\ i \in Idx(w) /\ tasks[w][i].pc \in AdjustPcs

\* worker w holds an admission slot: its _acquire_slot has returned and its
\* _release_slot has not run
Holding(w) == wpc[w] \in {"gather", "release", "unwind"}

\* C1: the limit of every source is in [1, 10] in every reachable state, and
\* every value _auto_adjust_limit has stored is in [1, 10], under every
\* interleaving of the outcome reports of two workers.
C1_LimitInRange ==
    \A s \in Sources :
       /\ LimitOf(s) >= 1 /\ LimitOf(s) <= 10
       /\ s \in DOMAIN limit => limit[s] >= 1 /\ limit[s] <= 10

\* C1 witness: the controller has backed a source off from 10 to 9.
C1_Witness ==
    /\ "mangapill" \in DOMAIN limit
    /\ limit["mangapill"] = 9

\* C2: while a call of _auto_adjust_limit runs for a source with at least 10
\* signals and an error rate above 0.30, the limit stays as it was until the
\* call returns, and is then max(1, previous limit - 1).
C2_BackOff ==
    [][\A w \in Workers : \A i \in Idx(w) :
         (/\ InAdjust(w, i)
          /\ SuccOf(Src(w)) + ErrOf(Src(w)) >= 10
          /\ 10 * ErrOf(Src(w)) > 3 * (SuccOf(Src(w)) + ErrOf(Src(w))))
         => IF tasks'[w][i].pc = "done"
            THEN LimitOf(Src(w))' = Max(1, LimitOf(Src(w)) - 1)
            ELSE limit' = limit]_vars

\* C2 witness: a call that found 7 errors in 20 signals has returned and the
\* limit is one below the default.
C2_Witness ==
    /\ wpc["w1"] = "gather"
    /\ tasks["w1"][1].pc = "done"
    /\ SuccOf("mangapill") = 13 /\ ErrOf("mangapill") = 7
    /\ default_limit = 3
    /\ limit = OneKey("mangapill", 2)

\* C3: while a call of _auto_adjust_limit runs for a source with at least 10
\* signals and an error rate below 0.05, the limit stays as it was until the
\* call returns, and is then min(10, previous limit + 1).
C3_RampUp ==
    [][\A w \in Workers : \A i \in Idx(w) :
         (/\ InAdjust(w, i)
          /\ SuccOf(Src(w)) + ErrOf(Src(w)) >= 10
          /\ 20 * ErrOf(Src(w)) < SuccOf(Src(w)) + ErrOf(Src(w)))
         => IF tasks'[w][i].pc = "done"
            THEN LimitOf(Src(w))' = Min(10, LimitOf(Src(w)) + 1)
            ELSE limit' = limit]_vars

\* C3 witness: a call that found 1 error in 21 signals has returned and the
\* limit is one above the default.
C3_Witness ==
    /\ wpc["w1"] = "gather"
    /\ tasks["w1"][1].pc = "done"
    /\ SuccOf("mangapill") = 20 /\ ErrOf("mangapill") = 1
    /\ default_limit = 3
    /\ limit = OneKey("mangapill", 4)

\* C4: while fewer than 10 signals are counted for a source, no step of a call
\* of _auto_adjust_limit for it changes dl_limit, whatever the error rate and
\* whatever the limit.
C4_NoSignalNoChange ==
    [][\A w \in Workers : \A i \in Idx(w) :
         (/\ InAdjust(w, i)
          /\ SuccOf(Src(w)) + ErrOf(Src(w)) < 10)
         => limit' = limit]_vars

\* C4 witness: a call that found 9 errors and no success has returned and the
\* stored limit is still 5.
C4_Witness ==
    /\ wpc["w1"] = "gather"
    /\ tasks["w1"][1].pc = "done"
    /\ SuccOf("mangapill") = 0 /\ ErrOf("mangapill") = 9
    /\ limit = OneKey("mangapill", 5)

\* no save(i, url) of worker w is inside _record_result or _auto_adjust_limit
Reported(w) ==
    \A i \in Idx(w) :
       tasks[w][i].pc \in {"start", "wait_sem", "fetching", "streaming", "done", "raised"}

\* C5: from limit 3 and zero counters, the limit is 3 as long as fewer than 10
\* outcomes are counted, and once 6 successes and 4 failures are counted and
\* the report of the tenth has returned the limit is 2.
C5_TenOutcomes ==
    /\ SuccOf("global") + ErrOf("global") < 10 => LimitOf("global") = 3
    /\ (/\ SuccOf("global") = 6 /\ ErrOf("global") = 4
        /\ \A w \in Workers : Reported(w))
       => LimitOf("global") = 2

\* C5 witness: the tenth job, with 6 successes and 4 failures counted, is about
\* to release its slot and the limit is 2.
C5_Witness ==
    /\ wpc["w1"] = "release"
    /\ Len(queue) = ScenarioJobs - 10
    /\ SuccOf("global") = 6 /\ ErrOf("global") = 4
    /\ limit = OneKey("global", 2)

\* C6: the active-slot counter of every source equals the number of workers
\* holding a slot of that source; it is 0 when no job is in flight.
C6_SlotsBalanced ==
    \A s \in Sources :
       GetInt(active, s) = Cardinality({w \in Workers : Holding(w) /\ Src(w) = s})

\* C6 witness: every queued job is done, no worker holds a job, and the counter
\* that was checked out is back to 0.
C6_Witness ==
    /\ queue = << >>
    /\ \A w \in Workers : wpc[w] \in {"pop", "sleep"}
    /\ "mangapill" \in DOMAIN active
    /\ active["mangapill"] = 0

\* the path destination_root/job_label/NNN.ext of the i-th url of job j, for
\* i below 1000
Layout(j, i) ==
    <<j.manga_title, j.chapter_title,
      <<i \div 100, (i \div 10) % 10, i % 10>>,
      IF j.urls[i].suffix = "" THEN ".jpg" ELSE j.urls[i].suffix>>

\* every destination file of the job of worker w exists with a non-zero size
AllThere(w) ==
    \A i \in 1..Len(job[w].urls) :
       /\ IsStr(job[w].urls[i])
       /\ Layout(job[w], i) \in DOMAIN files
       /\ files[Layout(job[w], i)] # {}

\* C7: once download_chapter runs on a job all of whose destination files exist
\* with a non-zero size and it has sent no request, it sends none, and the
\* summary it logs has done = total.
C7_RerunReportsAll ==
    [][\A w \in Workers :
         (Holding(w) /\ AllThere(w) /\ fetches[w] = 0)
         => /\ fetches'[w] = 0
            /\ wpc'[w] = "release" => done'[w] = Total(w)]_vars

\* C8: the save(i, url) coroutines of one job that have a request in progress
\* are never more than the job's fan-out cap.
C8_FanOutCap ==
    \A w \in Workers :
       Holding(w) =>
         Cardinality({i \in Idx(w) : tasks[w][i].pc \in {"fetching", "streaming"}})
           <= job[w].sem_limit

\* C8 witness: under a cap of 1 one page is being fetched while another waits
\* for the permit.
C8_Witness ==
    /\ wpc["w1"] = "gather"
    /\ job["w1"].sem_limit = 1
    /\ \E i, k \in Idx("w1") :
         /\ tasks["w1"][i].pc = "streaming"
         /\ tasks["w1"][k].pc = "wait_sem"

\* C9: when the decay check of a report has fired and read counters above 200,
\* then as the report goes on to adjust the limit each counter is the floor of
\* half the value read; from (150, 60) that is (75, 30), after a success
\* (151, 60 read) and after a failure (150, 61 read).
C9_DecayHalves ==
    \A w \in Workers : \A i \in Idx(w) :
       (InAdjust(w, i) /\ tasks[w][i].rsucc + tasks[w][i].rerr > 200)
       => /\ 2 * SuccOf(Src(w)) <= tasks[w][i].rsucc
          /\ tasks[w][i].rsucc <= 2 * SuccOf(Src(w)) + 1
          /\ 2 * ErrOf(Src(w)) <= tasks[w][i].rerr
          /\ tasks[w][i].rerr <= 2 * ErrOf(Src(w)) + 1
          /\ (<<tasks[w][i].rsucc, tasks[w][i].rerr>> \in {<<151, 60>>, <<150, 61>>}
                => SuccOf(Src(w)) = 75 /\ ErrOf(Src(w)) = 30)

\* C9 witness: a failure was reported at (150, 60), the decay fired, and the
\* counters are (75, 30).
C9_Witness ==
    /\ InAdjust("w1", 1)
    /\ ~tasks["w1"][1].ok
    /\ tasks["w1"][1].rsucc = 150 /\ tasks["w1"][1].rerr = 61
    /\ SuccOf("global") = 75 /\ ErrOf("global") = 30

\* C10: when every page of a job has been fetched and none has failed, then at
\* the summary the files written are exactly the n distinct paths
\* destination_root/job_label/NNN.ext, each holding the whole body it was sent,
\* and done = total = n.
C10_LayoutAndSummary ==
    \A w \in Workers :
       (/\ wpc[w] = "release"
        /\ fetches[w] = Len(job[w].urls)
        /\ failed[w] = 0)
       => /\ DOMAIN files = {Layout(job[w], i) : i \in 1..Len(job[w].urls)}
          /\ \A p \in DOMAIN files : files[p] = Body
          /\ Cardinality(DOMAIN files) = Len(job[w].urls)
          /\ done[w] = Len(job[w].urls)
          /\ Total(w) = Len(job[w].urls)

\* C10 witness: two pages fetched without a failure give 001.jpg and 002.png and
\* the summary 2/2.
C10_Witness ==
    /\ wpc["w1"] = "release"
    /\ failed["w1"] = 0
    /\ done["w1"] = 2
    /\ DOMAIN files = {<<"m", 1, <<0, 0, 1>>, ".jpg">>, <<"m", 1, <<0, 0, 2>>, ".png">>}

\* C11: a worker leaves the held section (normally, after directory creation
\* raised, or after a save(i, u) raised) only by the step that decrements the
\* slot counter of its source; the counter of a source goes down only in such
\* a step of a worker that holds a slot of that source; and a worker whose
\* _acquire_slot returns enters the held section.
C11_ScopedRelease ==
    [][/\ \A w \in Workers :
            (Holding(w) /\ ~Holding(w)') => active' = Decr(active, Src(w))
       /\ \A s \in Sources :
            (GetInt(active, s)' < GetInt(active, s))
            => \E w \in Workers :
                  /\ wpc[w] \in {"release", "unwind"}
                  /\ Src(w) = s
                  /\ ~Holding(w)'
       /\ \A w \in Workers :
            (wpc[w] = "acq_incr" /\ wpc'[w] # "acq_incr")
            => Holding(w)' /\ active' = Incr(active, Src(w))]_vars

\* C11 witness: directory creation raised in a worker that had taken a slot;
\* the worker has ended and the slot counter is back to 0.
C11_Witness ==
    /\ net = {"mkdir"}
    /\ \E w \in Workers : wpc[w] = "crashed"
    /\ "mangapill" \in DOMAIN active
    /\ active["mangapill"] = 0

\* C12: every save(i, u) of a job that returns -- after a fetch that succeeded,
\* after one that failed, or because the file was already there -- returns out
\* of the one _record_result it issued, so that when the fan-out of a job with
\* n assets has completed n outcomes have been reported.
C12_EveryAssetReported ==
    [][\A w \in Workers :
         /\ \A i \in Idx(w) :
              (/\ i \in DOMAIN tasks'[w]
               /\ tasks[w][i].pc # "done"
               /\ tasks'[w][i].pc = "done")
              => tasks[w][i].pc \in AdjustPcs
         /\ (wpc[w] = "gather" /\ wpc'[w] = "release")
              => done[w] + failed[w] = Total(w)]_vars

\* every element of the url list of job j is a string
WellFormed(j) == \A i \in DOMAIN j.urls : IsStr(j.urls[i])

\* this step is a step of save(i, u) of worker w
Moved(w, i) == i \in DOMAIN tasks'[w] /\ tasks'[w][i] # tasks[w][i]

\* C13: a fetch that fails (request or status, file or stream) ends in the
\* report of an error outcome and never in an exception of save(i, u); the
\* report adds one to the error counter and nothing to the success counter;
\* no exception leaves download_chapter for a job of string urls whose fetches
\* failed; and when such a job logs its summary every save(i, u) has returned
\* and done is the number of requests sent less the number that failed.
C13_FailuresSwallowed ==
    [][\A w \in Workers :
         /\ \A i \in Idx(w) :
              /\ (tasks[w][i].pc \in {"fetching", "streaming"} /\ Moved(w, i))
                 => /\ tasks'[w][i].pc \in {"streaming", "rec_incr"}
                    /\ failed'[w] # failed[w]
                         => tasks'[w][i].pc = "rec_incr" /\ ~tasks'[w][i].ok
              /\ (tasks[w][i].pc = "rec_incr" /\ ~tasks[w][i].ok /\ Moved(w, i))
                 => /\ ErrOf(Src(w))' = ErrOf(Src(w)) + 1
                    /\ succ' = succ
         /\ (Holding(w) /\ WellFormed(job[w]) /\ failed[w] > 0)
              => wpc'[w] \notin {"unwind", "crashed"}
         /\ (wpc[w] = "gather" /\ wpc'[w] = "release" /\ failed[w] > 0)
              => /\ \A i \in Idx(w) : tasks[w][i].pc = "done"
                 /\ done[w] = fetches[w] - failed[w]]_vars

\* C13 witness: of the two pages of a job one was fetched and one failed; the
\* failure is counted as an error and the summary is 1/2.
C13_Witness ==
    /\ wpc["w1"] = "release"
    /\ Total("w1") = 2
    /\ failed["w1"] = 1
    /\ done["w1"] = 1
    /\ ErrOf("mangapill") = 1 /\ SuccOf("mangapill") = 1

\* C14: no worker process ends on its own, and the step that takes a job
\* description that does not decode or bind off the queue only discards it: the
\* worker stays in its blocking-pop loop, holding no job, the store untouched.
C14_MalformedDropped ==
    [][/\ \A w \in Workers : wpc'[w] # "crashed"
       /\ (queue # << >> /\ ~Binds(Head(queue)) /\ queue' # queue)
            => /\ queue' = Tail(queue)
               /\ wpc' = wpc
               /\ job' = job
               /\ store' = store]_vars

\* the active-slot counter of source s
ActiveOf(s) == GetInt(active, s)

\* C15 as stated: a step that does not lower the limit of a source never takes
\* its active-slot counter from at most the limit to above the limit.
C15_AdmissionBound ==
    [][\A s \in Sources :
         (ActiveOf(s) <= LimitOf(s) /\ LimitOf(s)' >= LimitOf(s))
         => ActiveOf(s)' <= LimitOf(s)']_vars

\* C15 amended: a worker goes from the check of _acquire_slot to its increment
\* only if the count it read is below the limit it read, and a worker that is
\* refused writes nothing; the counter passes above the limit in a step that
\* does not lower the limit only by the increment of a worker that passed its
\* check earlier, while another worker holds a slot of the same source.
C15_AdmissionBestEffort ==
    [][/\ \A w \in Workers :
            /\ (wpc[w] = "acq_active" /\ wpc'[w] = "acq_incr")
                 => ActiveOf(Src(w)) < lim[w]
            /\ (wpc[w] = "acq_active" /\ wpc'[w] = "acq_limit")
                 => ActiveOf(Src(w)) >= lim[w] /\ store' = store
       /\ \A s \in Sources :
            (/\ ActiveOf(s) <= LimitOf(s)
             /\ LimitOf(s)' >= LimitOf(s)
             /\ ActiveOf(s)' > LimitOf(s)')
            => \E w, v \in Workers :
                  /\ w # v
                  /\ wpc[w] = "acq_incr" /\ Src(w) = s /\ Holding(w)'
                  /\ Holding(v) /\ Src(v) = s]_vars

\* C15 witness: two workers hold a slot of a source whose limit has been 1 from
\* the start and no outcome has been reported yet.
C15_Witness ==
    /\ limit = OneKey("mangapill", 1)
    /\ ActiveOf("mangapill") = 2
    /\ SuccOf("mangapill") = 9 /\ ErrOf("mangapill") = 0
    /\ \A w \in Workers : wpc[w] = "gather"

\* C16: the queue loses an element only to a worker that waits in blpop and
\* holds no job; a worker gets a job only that way, having none and no fan-out
\* of its own left; and a blpop that times out leads to the sleep and back to
\* blpop with the queue, the job slot and the store as they were.
C16_OneJobAtATime ==
    [][/\ Len(queue') < Len(queue)
            => /\ queue' = Tail(queue)
               /\ \E w \in Workers :
                     /\ wpc[w] = "pop" /\ wpc'[w] # "pop"
                     /\ job[w] = NoJob /\ tasks[w] = << >>
       /\ \A w \in Workers :
            /\ (job'[w] # job[w] /\ job'[w] # NoJob)
                 => /\ wpc[w] = "pop"
                    /\ job[w] = NoJob /\ tasks[w] = << >>
                    /\ queue # << >> /\ job'[w] = Bound(Head(queue))
            /\ (wpc[w] = "pop" /\ wpc'[w] = "sleep")
                 => queue = << >> /\ UNCHANGED <<queue, job, store, files>>
            /\ (wpc[w] = "sleep" /\ wpc'[w] # "sleep")
                 => wpc'[w] = "pop" /\ UNCHANGED <<queue, job, store, files>>]_vars

\* C16 witness: the worker is in the fan-out of the second job of the queue,
\* the first one downloaded and released.
C16_Witness ==
    /\ wpc["w1"] = "gather"
    /\ job["w1"].chapter_title = 2
    /\ Len(queue) = ScenarioJobs - 2
    /\ ActiveOf("global") = 1
    /\ \E p \in DOMAIN files : p[2] = 1

\* C17: a request of a job is sent only while the worker holds the slot it
\* acquired for the job, and the step that releases the slot finds every
\* save(i, u) of the job finished, returned or raised.
C17_SlotAroundFanOut ==
    [][\A w \in Workers :
         /\ fetches'[w] > fetches[w] => Holding(w)
         /\ (Holding(w) /\ ~Holding(w)')
              => \A i \in Idx(w) : tasks[w][i].pc \in {"done", "raised"}]_vars

\* C18: as _record_result calls follow one another, a counter of a source goes
\* down only in a set of the decay branch of a call for that source which read
\* counters summing to more than 200; the success counter is then set from
\* counters that still sum to more than 200 to half of what was read, the
\* error counter after it to half of what was read, the other left alone.
C18_ShrinkOnlyByDecay ==
    [][\A s \in Sources :
         (SuccOf(s)' < SuccOf(s) \/ ErrOf(s)' < ErrOf(s))
         => \E w \in Workers : \E i \in Idx(w) :
               /\ Src(w) = s
               /\ Moved(w, i)
               /\ tasks[w][i].rsucc + tasks[w][i].rerr > 200
               /\ \/ /\ tasks[w][i].pc = "rec_set_succ"
                     /\ SuccOf(s) = tasks[w][i].rsucc /\ ErrOf(s) = tasks[w][i].rerr
                     /\ SuccOf(s) + ErrOf(s) > 200
                     /\ SuccOf(s)' = tasks[w][i].rsucc \div 2
                     /\ err' = err
                  \/ /\ tasks[w][i].pc = "rec_set_err"
                     /\ ErrOf(s) = tasks[w][i].rerr
                     /\ ErrOf(s)' = tasks[w][i].rerr \div 2
                     /\ succ' = succ]_vars

\* C18 witness: a report that found the counters at 141 and 60 has halved the
\* success counter and is about to halve the error counter.
C18_Witness ==
    /\ wpc["w1"] = "gather"
    /\ tasks["w1"][1].pc = "rec_set_err"
    /\ tasks["w1"][1].rsucc = 141 /\ tasks["w1"][1].rerr = 60
    /\ SuccOf("mangapill") = 70 /\ ErrOf("mangapill") = 60

\* source s has at least 10 signals and an error rate e / t with
\* 0.05 <= e / t <= 0.30
InBand(s) ==
    /\ SuccOf(s) + ErrOf(s) >= 10
    /\ 20 * ErrOf(s) >= SuccOf(s) + ErrOf(s)
    /\ 10 * ErrOf(s) <= 3 * (SuccOf(s) + ErrOf(s))

\* source s is at the floor with an error rate above 0.30, or at the ceiling
\* with an error rate below 0.05
AtStop(s) ==
    /\ SuccOf(s) + ErrOf(s) >= 10
    /\ \/ LimitOf(s) = 1 /\ 10 * ErrOf(s) > 3 * (SuccOf(s) + ErrOf(s))
       \/ LimitOf(s) = 10 /\ 20 * ErrOf(s) < SuccOf(s) + ErrOf(s)

\* C20: no step of a call of _auto_adjust_limit changes dl_limit when the source
\* is in the band 0.05 <= rate <= 0.30 with at least 10 signals, or at limit 1
\* with rate > 0.30, or at limit 10 with rate < 0.05; and no step of the call
\* changes the active-slot counter or the success and error counters.
C20_HysteresisBand ==
    [][\A w \in Workers : \A i \in Idx(w) :
         InAdjust(w, i)
         => /\ (InBand(Src(w)) \/ AtStop(Src(w))) => limit' = limit
            /\ Moved(w, i) => succ' = succ /\ err' = err /\ active' = active]_vars

\* C20 witness: a call that found 3 errors in 10 signals, a rate of exactly
\* 0.30, has returned and the stored limit is still 5.
C20_Witness ==
    /\ wpc["w1"] = "gather"
    /\ tasks["w1"][1].pc = "done"
    /\ SuccOf("mangapill") = 7 /\ ErrOf("mangapill") = 3
    /\ limit = OneKey("mangapill", 5)

\* C19: a worker that polls in _acquire_slot writes nothing to the store until
\* it is granted, and, the holders of the slots of its source finishing their
\* jobs and releasing, it is granted: it increments the counter and enters the
\* held section.
C19_AcquireGranted ==
    /\ [][\A w \in Workers :
            (/\ wpc[w] \in {"acq_limit", "acq_active"}
             /\ wpc'[w] \in {"acq_limit", "acq_active"}
             /\ wpc'[w] # wpc[w])
            => store' = store]_vars
    /\ \A w \in Workers :
         (wpc[w] \in {"acq_limit", "acq_active"}) ~> Holding(w)

\* C19 witness: a worker reads the active count of a source of limit 1 while
\* the other worker holds its only slot: it is about to be refused and to poll
\* again.
C19_Witness ==
    /\ wpc["w1"] = "acq_active"
    /\ lim["w1"] = 1
    /\ ActiveOf("mangapill") = 1
    /\ wpc["w2"] = "gather"

----------------------------------------------------------------------------
(* C21: overlapping _record_result calls on one source *)

\* One complete _record_result on the counters c = <<success, error>>, run
\* with nothing in between: the increment, then the halving when the sample
\* fires and the sum exceeds the threshold
SeqRecord(c, ok, fires) ==
    LET c1 == IF ok THEN <<c[1] + 1, c[2]>> ELSE <<c[1], c[2] + 1>>
    IN IF fires /\ DecayDue(c1[1], c1[2]) THEN <<Halve(c1[1]), Halve(c1[2])>> ELSE c1

\* The counters after two complete calls in either order, for every sample
SeqOutcomes(c, oka, okb) ==
    {SeqRecord(SeqRecord(c, oka, f1), okb, f2) : f1 \in BOOLEAN, f2 \in BOOLEAN}
      \cup {SeqRecord(SeqRecord(c, okb, f1), oka, f2) : f1 \in BOOLEAN, f2 \in BOOLEAN}

\* the one-page chapter c of the run of two workers
ChapterJob(c) == MkJob(c, <<UrlA>>, "mangapill.com", DefaultSemLimit)

\* the outcomes save(1, u) of chapter c can have reported, by the file it has
\* left: the whole body after a success, or after a stream or a re-encoding
\* that failed at its end; a part of it or none after a failure
Reports(c) ==
    LET p == Dest(ChapterJob(c), 1)
    IN  IF p \in DOMAIN files /\ files[p] = Body THEN {TRUE, FALSE} ELSE {FALSE}

\* both chapters of the run that started at (DecayThreshold, 0) have been
\* worked off and both workers are idle again
BothRecorded ==
    /\ queue = << >>
    /\ \A w \in Workers : wpc[w] \in {"pop", "sleep"}
    /\ SuccOf("mangapill") + ErrOf("mangapill") >= Halve(DecayThreshold)

\* C21: when two workers record one outcome each for the same source and a
\* decay may fire in either, the counters both calls leave are the counters
\* some sequential order of the two complete calls leaves: no increment is lost
C21_Linearizable ==
    BothRecorded =>
        \E oka \in Reports(1), okb \in Reports(2) :
            <<SuccOf("mangapill"), ErrOf("mangapill")>>
                \in SeqOutcomes(<<DecayThreshold, 0>>, oka, okb)

----------------------------------------------------------------------------
(* C22: the limit of the statistics snapshot and the limit of _acquire_slot *)

\* the snapshot get_source_status returns in the current state
Snapshot == SourceStatus(succ, err, limit)

\* C22: whenever _acquire_slot of a worker has read the limit of its source
\* and is about to compare the active-slot counter against it, the snapshot
\* of that state reports the same limit for the source, also when no limit
\* has been stored and whatever default the operator has configured
C22_PublishedIsEnforced ==
    \A w \in Workers :
        (wpc[w] = "acq_active" /\ Src(w) \in DOMAIN Snapshot)
            => Snapshot[Src(w)].limit = lim[w]

====
